---- MODULE Spec2Model ----
(***************************************************************************)
(* Smart-window-control: the WebSocket relay of server.js (the second,     *)
(* token-ledger revision of the file, lines 606-1380) and its HTTP         *)
(* authentication middleware.                                              *)
(*                                                                         *)
(* JavaScript runs one task at a time: every synchronous stretch of a      *)
(* handler is one atomic action.  An `await` on a Firebase write splits    *)
(* the handler; the rest of the handler is a continuation kept in          *)
(* `pending` and resumed by a later action.                                *)
(***************************************************************************)
EXTENDS Integers, Sequences, FiniteSets, TLC

(***************************************************************************)
(* Bounds of the model.                                                    *)
(***************************************************************************)
MaxConn == 2        \* connections ever accepted by the WebSocket server
MaxMsgs == 3        \* frames ever received
MaxClock == 3       \* last value of the clock while HTTP requests are served
MaxTokens == 2      \* tokens ever issued, and rows ever inserted into user_tokens

Conns == 1..MaxConn
MsgIds == 1..MaxMsgs

(***************************************************************************)
(* JavaScript values.  A value carries its type, so that a number is never *)
(* confused with a string that spells it.                                   *)
(***************************************************************************)
Num(n) == [t |-> "number", n |-> n]
Str(s) == [t |-> "string", s |-> s]
Undefined == [t |-> "undefined"]
Null == [t |-> "null"]

\* new Date().toISOString() at clock value `time`.
IsoTime(time) == [t |-> "string", iso |-> time]

\* JavaScript truthiness, as used by `data.mode || "AUTO"`.
Falsy(v) == \/ v.t \in {"undefined", "null"}
            \/ v = Str("")
            \/ v = Num(0)

(***************************************************************************)
(* WebSocket frames.  A text frame is kept as the list of its pieces       *)
(* between colons (what msg.split(":") returns); a frame holding a JSON    *)
(* object is kept as the object, a missing property reading as undefined.  *)
(***************************************************************************)
Text(fields) == [kind |-> "text", fields |-> fields]
Json(data) == [kind |-> "json", data |-> data]

Report(te, li, wi, mo, ts) ==
    Json([temperature |-> te, light |-> li, window |-> wi, mode |-> mo,
          timestamp |-> ts])

\* ReportOpen also carries a timestamp of the device's own clock, as the
\* payload the README gives as an example does.
ReportOpen == Report(Num(26), Num(10), Str("OPEN"), Str("AUTO"), Num(1670))
ReportClose == Report(Num(24), Num(1200), Str("CLOSE"), Str("MANUAL"), Undefined)
\* A report with a temperature that is no number, a window that is neither
\* OPEN nor CLOSE, and no mode.
ReportBad == Report(Str("hot"), Num(10), Str("AJAR"), Undefined, Undefined)

Reports == {ReportOpen, ReportClose, ReportBad}

RoleTokens == {"ESP32", "BROWSER", "HACKER"}
RoleMsgs == {Text(<<"ROLE", r>>) : r \in RoleTokens}
UserMsgs == {Text(<<"USER", "42">>)}
CommandWords == {"OPEN", "CLOSE", "AUTO"}
CommandMsgs == {Text(<<w>>) : w \in CommandWords}
OtherMsgs == {Text(<<"open">>)}

Messages == RoleMsgs \cup UserMsgs \cup CommandMsgs \cup OtherMsgs \cup Reports

VARIABLES
    readyState,           \* per connection: "NONE", "OPEN", "CLOSING", "CLOSED"
    role,                 \* ws.role
    userId,               \* ws.userId
    sent,                 \* per connection: the frames the server sent on it
    systemState,          \* the shared current-state record
    previousWindowState,
    telegram,             \* the texts handed to sendTelegram, in order
    telegramStatus,       \* per call of sendTelegram: "pending" until its
                          \*   axios.post settles, then "sent" or "error"
    db,                   \* TRUE iff Firebase was initialised (db is not null)
    archiveUp,            \* TRUE iff Firebase answers the writes it is sent
    pending,              \* handlers suspended at an await
    received,             \* number of frames received so far
    event,                \* history: the frame this step dispatched, if any
    lastReport,           \* history: the report stored most recently
    transitions,          \* history: stored reports whose window differed
                          \*   from the window of the report stored before
    now                   \* the server clock

VARIABLES
    users,                \* table users: the usernames, in order of their ids
    ledger,               \* table user_tokens: the rows, in order of their ids
    issued,               \* the tokens handed to callers in HTTP responses
    request               \* history: the middleware call this step made

VARIABLES
    controlMode,          \* firmware: "AUTO" or "MANUAL"
    windowOpen,           \* firmware: bool windowOpen
    temperature,          \* firmware: the last dht.readTemperature()
    lightValue,           \* firmware: the last analogRead(LDR_PIN)
    apModeActive,         \* firmware: the config portal is running
    buttonHolding,
    sincePress,           \* millis() - buttonPressStart, in seconds, counted
                          \*   up to ResetHold + 1
    sinceSend,            \* millis() - lastSend, in seconds, counted up to
                          \*   SendEvery + 1
    button,               \* the level of RESET_BUTTON: "LOW" while pressed
    wifi,                 \* WiFi.status() == WL_CONNECTED
    available,            \* wsClient.available()
    pc,                   \* where loop() stands: "top" or "poll"
    fwLink,               \* the relay's connection that is the firmware's
                          \*   socket, 0 when the firmware talks to no relay
    uplink,               \* frames the firmware wrote, not yet handled
    polled,               \* how many frames of sent[fwLink] wsClient.poll()
                          \*   has delivered
    heldFor,              \* history: seconds the button has been down
                          \*   without a break, counted up to ResetHold + 1
    fwEvent               \* history: what the firmware did in this step

authVars == <<users, ledger, issued, request>>

\* The firmware's state apart from the frames it wrote.
deviceVars == <<controlMode, windowOpen, temperature, lightValue, apModeActive,
                buttonHolding, sincePress, sinceSend, button, wifi, available,
                pc, fwLink, polled, heldFor, fwEvent>>

fwVars == <<deviceVars, uplink>>

relayVars == <<readyState, role, userId, sent, systemState, previousWindowState,
               telegram, telegramStatus, db, archiveUp, pending, received,
               event,
               lastReport, transitions, now>>

vars == <<relayVars, authVars, fwVars>>

(***************************************************************************)
(* String and JSON functions of the handlers.                              *)
(***************************************************************************)
\* msg.startsWith(prefix + ":")
StartsWith(msg, prefix) ==
    /\ msg.kind = "text"
    /\ Len(msg.fields) >= 2
    /\ msg.fields[1] = prefix

\* msg.split(":")[1]
SplitColon1(msg) == msg.fields[2]

\* JSON.parse(msg): the object, or SyntaxError for a frame that is no JSON
\* text (a bare word such as OPEN or hello is none).
SyntaxError == [error |-> "SyntaxError"]

\* Variant: a parser that yields an empty object where JSON.parse throws.
JSONParseLenient(msg) ==
    IF msg.kind = "json" THEN msg.data
    ELSE [temperature |-> Undefined, light |-> Undefined,
          window |-> Undefined, mode |-> Undefined, timestamp |-> Undefined]

JSONParse(msg) == IF msg.kind = "json" THEN msg.data ELSE SyntaxError

\* JSON.stringify(data), sent as one frame.
JSONStringify(data) == Json(data)

\* Variant: the comparison ignores the case of the frame.
IsCommandAnyCase(msg) ==
    /\ msg.kind = "text"
    /\ Len(msg.fields) = 1
    /\ msg.fields[1] \in {"OPEN", "CLOSE", "AUTO", "open", "close", "auto"}

\* msg === "OPEN" || msg === "CLOSE" || msg === "AUTO"
IsCommand(msg) ==
    /\ msg.kind = "text"
    /\ Len(msg.fields) = 1
    /\ msg.fields[1] \in {"OPEN", "CLOSE", "AUTO"}

\* The string a text frame of one piece spells.
MsgString(msg) == Str(msg.fields[1])

(***************************************************************************)
(* System state.                                                           *)
(***************************************************************************)
InitialSystemState ==
    [temperature |-> Num(0), light |-> Num(0), window |-> Str("CLOSE"),
     mode |-> Str("AUTO"), timestamp |-> Null]

InitialPreviousWindowState == Str("CLOSE")

\* Variant: the timestamp of the report is kept when the report has one.
StoreReportDeviceTime(st, data, time) ==
    [temperature |-> data.temperature,
     light |-> data.light,
     window |-> data.window,
     mode |-> IF Falsy(data.mode) THEN Str("AUTO") ELSE data.mode,
     timestamp |-> IF Falsy(data.timestamp) THEN IsoTime(time)
                   ELSE data.timestamp]

\* The five assignments of the ESP32 branch.
StoreReport(st, data, time) ==
    [temperature |-> data.temperature,
     light |-> data.light,
     window |-> data.window,
     mode |-> IF Falsy(data.mode) THEN Str("AUTO") ELSE data.mode,
     timestamp |-> IsoTime(time)]

\* systemState.window = msg, of the BROWSER branch.
StoreCommand(st, msg) == [st EXCEPT !.window = MsgString(msg)]

AlertMessage(st) ==
    [window |-> st.window, temperature |-> st.temperature, light |-> st.light]

(***************************************************************************)
(* wss.clients and the two fan-out functions.                              *)
(***************************************************************************)
Clients == {c \in Conns : readyState[c] \in {"OPEN", "CLOSING"}}

\* Variant: the loop tests the role only, not readyState.
broadcastToEveryBrowser(out, data) ==
    [c \in Conns |->
        IF c \in Clients /\ role[c] = "BROWSER"
        THEN Append(out[c], JSONStringify(data))
        ELSE out[c]]

broadcastToBrowser(out, data) ==
    [c \in Conns |->
        IF c \in Clients /\ readyState[c] = "OPEN" /\ role[c] = "BROWSER"
        THEN Append(out[c], JSONStringify(data))
        ELSE out[c]]

\* Variant: the loop tests readyState only, not the role.
sendToEveryClient(out, command) ==
    [c \in Conns |->
        IF c \in Clients /\ readyState[c] = "OPEN"
        THEN Append(out[c], command)
        ELSE out[c]]

sendToESP32(out, command) ==
    [c \in Conns |->
        IF c \in Clients /\ readyState[c] = "OPEN" /\ role[c] = "ESP32"
        THEN Append(out[c], command)
        ELSE out[c]]

(***************************************************************************)
(* Initial state: the server has started, nobody is connected.             *)
(***************************************************************************)
NoHandler == [pc |-> "done"]
\* Before any report the window counts as CLOSE, the initial value of
\* systemState.window and previousWindowState.
NoReport == [window |-> Str("CLOSE"), mode |-> Str("AUTO")]
NoEvent == [conn |-> 0]
NoRequest == [mw |-> "none", admitted |-> FALSE]
Frame(c, msg) == [conn |-> c, msg |-> msg]

NoFwEvent == [step |-> "none"]

\* The firmware after setup(): WiFi connected or not (then the config
\* portal runs), the WebSocket connected or not.
DeviceStarted ==
    /\ controlMode = "AUTO"
    /\ windowOpen = FALSE
    /\ temperature = Num(0)
    /\ lightValue = Num(0)
    /\ buttonHolding = FALSE
    /\ sincePress = 0
    /\ sinceSend = 0
    /\ button = "HIGH"
    /\ pc = "top"
    /\ polled = 0
    /\ heldFor = 0
    /\ fwEvent = NoFwEvent

\* No firmware takes part: the relay's clients are anybody.
FirmwareAbsent ==
    /\ DeviceStarted
    /\ wifi = FALSE
    /\ apModeActive = TRUE
    /\ available = FALSE
    /\ fwLink = 0
    /\ uplink = <<>>

\* The module-level state of server.js after start-up, and the counters
\* of the model.
ServerStarted ==
    /\ userId = [c \in Conns |-> Null]
    /\ sent = [c \in Conns |-> <<>>]
    /\ systemState = InitialSystemState
    /\ previousWindowState = InitialPreviousWindowState
    /\ telegram = <<>>
    /\ telegramStatus = <<>>
    /\ db \in BOOLEAN
    /\ pending = [h \in MsgIds |-> NoHandler]
    /\ received = 0
    /\ event = NoEvent
    /\ lastReport = NoReport
    /\ transitions = 0
    /\ now = 0

RelayInit ==
    /\ readyState = [c \in Conns |-> "NONE"]
    /\ role = [c \in Conns |-> "UNKNOWN"]
    /\ archiveUp = TRUE
    /\ ServerStarted

AuthInit ==
    /\ users = <<>>
    /\ ledger = <<>>
    /\ issued = {}
    /\ request = NoRequest

Init == RelayInit /\ AuthInit /\ FirmwareAbsent

(***************************************************************************)
(* Connections.                                                            *)
(***************************************************************************)
\* wss.on("connection"): the next connection is accepted.
Connection(c) ==
    /\ readyState[c] = "NONE"
    /\ \A d \in Conns : d < c => readyState[d] # "NONE"
    /\ readyState' = [readyState EXCEPT ![c] = "OPEN"]
    /\ role' = [role EXCEPT ![c] = "UNKNOWN"]
    /\ userId' = [userId EXCEPT ![c] = Null]
    /\ event' = NoEvent
    /\ UNCHANGED <<sent, systemState, previousWindowState, telegram, telegramStatus, db, archiveUp,
                   pending, received, lastReport, transitions,
                   now>>
    /\ UNCHANGED <<authVars, fwVars>>

\* The peer starts the closing handshake: the socket stays in wss.clients
\* with readyState CLOSING and delivers no further message.
Closing(c) ==
    /\ readyState[c] = "OPEN"
    /\ readyState' = [readyState EXCEPT ![c] = "CLOSING"]
    /\ event' = NoEvent
    /\ UNCHANGED <<role, userId, sent, systemState, previousWindowState,
                   telegram, telegramStatus, db, archiveUp, pending, received, lastReport,
                   transitions, now>>
    /\ UNCHANGED <<authVars, fwVars>>

\* ws.on("close"): the socket is closed and leaves wss.clients.  Nothing
\* reaches the socket object any more, and the model forgets its fields.
Close(c) ==
    /\ readyState[c] \in {"OPEN", "CLOSING"}
    /\ readyState' = [readyState EXCEPT ![c] = "CLOSED"]
    /\ role' = [role EXCEPT ![c] = "UNKNOWN"]
    /\ userId' = [userId EXCEPT ![c] = Null]
    /\ sent' = [sent EXCEPT ![c] = <<>>]
    /\ event' = NoEvent
    /\ UNCHANGED <<systemState, previousWindowState, telegram, telegramStatus, db, archiveUp, pending, received, lastReport, transitions, now>>
    /\ UNCHANGED <<authVars, fwVars>>

(***************************************************************************)
(* ws.on("message"): one action per branch of the handler.                 *)
(***************************************************************************)
\* A frame arrives on an open connection and its handler starts.  The
\* relay reads the clock only while it handles a frame; the clock has
\* advanced by one since the frame before.  On the connection that is the
\* firmware's socket the frames are those the firmware wrote, in order.
Receive(c, msg) ==
    /\ readyState[c] = "OPEN"
    /\ received < MaxMsgs
    /\ received' = received + 1
    /\ now' = now + 1
    /\ event' = Frame(c, msg)
    /\ IF c = fwLink
       THEN /\ uplink # <<>>
            /\ msg = Head(uplink)
            /\ uplink' = Tail(uplink)
       ELSE UNCHANGED uplink
    /\ UNCHANGED deviceVars

\* Variant: the ROLE: branch also sends the current state to the
\* connection that registered.
RoleRegisterGreets(c, msg) ==
    /\ Receive(c, msg)
    /\ StartsWith(msg, "ROLE")
    /\ role' = [role EXCEPT ![c] = SplitColon1(msg)]
    /\ sent' = [sent EXCEPT ![c] = Append(sent[c], JSONStringify(systemState))]
    /\ UNCHANGED <<readyState, userId, systemState,
                   previousWindowState, telegram, telegramStatus, db, archiveUp, pending,
                   lastReport, transitions>>
    /\ UNCHANGED authVars

\* if (msg.startsWith("ROLE:")) { ws.role = msg.split(":")[1]; return; }
RoleRegister(c, msg) ==
    /\ Receive(c, msg)
    /\ StartsWith(msg, "ROLE")
    /\ role' = [role EXCEPT ![c] = SplitColon1(msg)]
    /\ UNCHANGED <<readyState, userId, sent, systemState,
                   previousWindowState, telegram, telegramStatus, db, archiveUp, pending,
                   lastReport, transitions>>
    /\ UNCHANGED authVars

\* if (msg.startsWith("USER:")) { ws.userId = msg.split(":")[1]; return; }
UserIdRegister(c, msg) ==
    /\ Receive(c, msg)
    /\ ~StartsWith(msg, "ROLE")
    /\ StartsWith(msg, "USER")
    /\ userId' = [userId EXCEPT ![c] = Str(SplitColon1(msg))]
    /\ UNCHANGED <<readyState, role, sent, systemState, previousWindowState,
                   telegram, telegramStatus, db, archiveUp, pending, lastReport, transitions>>
    /\ UNCHANGED authVars

IsDirective(msg) == StartsWith(msg, "ROLE") \/ StartsWith(msg, "USER")

\* The tail of the ESP32 branch, run on the state `st` that systemState
\* holds when the second await returns: broadcast, then the alert logic.
\* (The BROWSER test that follows the branch fails: a frame that parsed as
\* JSON is none of the three command words.)
Esp32Tail(st) ==
    /\ sent' = broadcastToBrowser(sent, st)
    /\ IF st.window # previousWindowState
       THEN /\ telegram' = Append(telegram, AlertMessage(st))
            /\ telegramStatus' = Append(telegramStatus, "pending")
            /\ previousWindowState' = st.window
       ELSE UNCHANGED <<telegram, telegramStatus, previousWindowState>>

\* if (ws.role === "ESP32") { try { ... } catch (err) { ... } }
\* Without Firebase both awaits return within the same task, so the whole
\* branch is one step; with Firebase the handler stops at the first await.
Esp32Data(c, msg) ==
    /\ Receive(c, msg)
    /\ ~IsDirective(msg)
    /\ role[c] = "ESP32"
    /\ LET data == JSONParse(msg) IN
       IF data = SyntaxError
       THEN UNCHANGED <<systemState, lastReport, transitions, pending, sent,
                        telegram, telegramStatus, previousWindowState>>
       ELSE LET st == StoreReport(systemState, data, now') IN
            /\ systemState' = st
            /\ lastReport' = [window |-> data.window, mode |-> data.mode]
            /\ transitions' = IF data.window # lastReport.window
                              THEN transitions + 1 ELSE transitions
            /\ IF db
               THEN /\ pending' = [pending EXCEPT ![received + 1] =
                            [pc |-> "log", conn |-> c, msg |-> msg]]
                    /\ UNCHANGED <<sent, telegram, telegramStatus, previousWindowState>>
               ELSE /\ Esp32Tail(st)
                    /\ UNCHANGED pending
    /\ UNCHANGED <<readyState, role, userId, db, archiveUp>>
    /\ UNCHANGED authVars

\* await logToFirebase("sensor_data", ...) returns, the write done or
\* failed (logToFirebase catches the error); the handler calls
\* saveToFirebase and awaits again.  Firebase is an external store: the
\* model keeps when its writes return, not what it holds.
SensorLogDone(h) ==
    /\ pending[h].pc = "log"
    /\ archiveUp
    /\ pending' = [pending EXCEPT ![h].pc = "save"]
    /\ event' = NoEvent
    /\ UNCHANGED <<readyState, role, userId, sent, systemState,
                   previousWindowState, telegram, telegramStatus, db, archiveUp, received,
                   lastReport, transitions, now>>
    /\ UNCHANGED <<authVars, fwVars>>

\* await saveToFirebase("current_state", ...) returns, the write done or
\* failed (saveToFirebase catches the error); the handler broadcasts
\* systemState as it is now and runs the alert logic.
CurrentStateDone(h) ==
    /\ pending[h].pc = "save"
    /\ archiveUp
    /\ Esp32Tail(systemState)
    /\ pending' = [pending EXCEPT ![h] = NoHandler]
    /\ event' = NoEvent
    /\ UNCHANGED <<readyState, role, userId, systemState, db, archiveUp, received,
                   lastReport, transitions, now>>
    /\ UNCHANGED <<authVars, fwVars>>

\* Variant: the branch is open to every connection that is no ESP32.
CommandFromAnyRole(c, msg) ==
    /\ Receive(c, msg)
    /\ ~IsDirective(msg)
    /\ role[c] # "ESP32"
    /\ IsCommand(msg)
    /\ systemState' = StoreCommand(systemState, msg)
    /\ sent' = sendToESP32(sent, msg)
    /\ IF db
       THEN pending' = [pending EXCEPT ![received + 1] =
                [pc |-> "cmdlog", conn |-> c, msg |-> msg]]
       ELSE UNCHANGED pending
    /\ UNCHANGED <<readyState, role, userId, previousWindowState, telegram, telegramStatus,
                   db, archiveUp, lastReport, transitions>>
    /\ UNCHANGED authVars

\* Variant: the command is logged first and forwarded after the await, so
\* with Firebase nothing is sent in the step that receives it.
BrowserCommandLogFirst(c, msg) ==
    /\ Receive(c, msg)
    /\ ~IsDirective(msg)
    /\ role[c] = "BROWSER"
    /\ IsCommand(msg)
    /\ systemState' = StoreCommand(systemState, msg)
    /\ sent' = IF db THEN sent ELSE sendToESP32(sent, msg)
    /\ IF db
       THEN pending' = [pending EXCEPT ![received + 1] =
                [pc |-> "cmdlog", conn |-> c, msg |-> msg]]
       ELSE UNCHANGED pending
    /\ UNCHANGED <<readyState, role, userId, previousWindowState, telegram, telegramStatus,
                   db, archiveUp, lastReport, transitions>>
    /\ UNCHANGED authVars

\* if (ws.role === "BROWSER") { if (msg === "OPEN" || ...) { ... } }
BrowserCommand(c, msg) ==
    /\ Receive(c, msg)
    /\ ~IsDirective(msg)
    /\ role[c] = "BROWSER"
    /\ IsCommand(msg)
    /\ systemState' = StoreCommand(systemState, msg)
    /\ sent' = sendToESP32(sent, msg)
    /\ IF db
       THEN pending' = [pending EXCEPT ![received + 1] =
                [pc |-> "cmdlog", conn |-> c, msg |-> msg]]
       ELSE UNCHANGED pending
    /\ UNCHANGED <<readyState, role, userId, previousWindowState, telegram, telegramStatus,
                   db, archiveUp, lastReport, transitions>>
    /\ UNCHANGED authVars

\* await logToFirebase("commands", ...) returns; the handler only logs.
CommandLogDone(h) ==
    /\ pending[h].pc = "cmdlog"
    /\ archiveUp
    /\ pending' = [pending EXCEPT ![h] = NoHandler]
    /\ event' = NoEvent
    /\ UNCHANGED <<readyState, role, userId, sent, systemState,
                   previousWindowState, telegram, telegramStatus, db, archiveUp, received,
                   lastReport, transitions, now>>
    /\ UNCHANGED <<authVars, fwVars>>

\* Neither branch applies: the role is neither ESP32 nor BROWSER, or a
\* BROWSER frame is none of the three command words.
Ignored(c, msg) ==
    /\ Receive(c, msg)
    /\ ~IsDirective(msg)
    /\ role[c] # "ESP32"
    /\ ~(role[c] = "BROWSER" /\ IsCommand(msg))
    /\ UNCHANGED <<readyState, role, userId, sent, systemState,
                   previousWindowState, telegram, telegramStatus, db, archiveUp, pending,
                   lastReport, transitions>>
    /\ UNCHANGED authVars

\* GET /api/sensor-data changes nothing.  Without Firebase, or when the
\* read fails or finds nothing, the body is systemState as it is when the
\* handler runs.
SensorDataBodies == {systemState}

\* A connection is accepted, starts closing or is closed.
ConnectionStep == \E c \in Conns : Connection(c) \/ Closing(c) \/ Close(c)

\* ws.on("message") runs for a frame, up to its first await or its end.
MessageStep ==
    \E c \in Conns, msg \in Messages :
        \/ RoleRegister(c, msg)
        \/ UserIdRegister(c, msg)
        \/ Esp32Data(c, msg)
        \/ BrowserCommand(c, msg)
        \/ Ignored(c, msg)

\* A handler waiting at an await resumes.
ResumeStep ==
    \E h \in MsgIds :
        \/ SensorLogDone(h)
        \/ CurrentStateDone(h)
        \/ CommandLogDone(h)

RelayNext == ConnectionStep \/ MessageStep \/ ResumeStep

RelaySpec == Init /\ [][RelayNext]_vars

\* Variant: sendTelegram has no try/catch; the rejection of the un-awaited
\* promise is unhandled and ends the process, and with it every connection.
TelegramSettledUncaught(k, outcome) ==
    /\ k \in 1..Len(telegramStatus)
    /\ telegramStatus[k] = "pending"
    /\ telegramStatus' = [telegramStatus EXCEPT ![k] = outcome]
    /\ readyState' = IF outcome = "error"
                     THEN [c \in Conns |->
                             IF readyState[c] = "NONE" THEN "NONE" ELSE "CLOSED"]
                     ELSE readyState
    /\ event' = NoEvent
    /\ UNCHANGED <<role, userId, sent, systemState, previousWindowState,
                   telegram, db, archiveUp, pending, received, lastReport,
                   transitions, now>>
    /\ UNCHANGED <<authVars, fwVars>>

\* The axios.post of the k-th call of sendTelegram settles: the message was
\* sent, or the request failed and the catch block logged the error.  A
\* call that never settles stays "pending".
TelegramSettled(k, outcome) ==
    /\ k \in 1..Len(telegramStatus)
    /\ telegramStatus[k] = "pending"
    /\ telegramStatus' = [telegramStatus EXCEPT ![k] = outcome]
    /\ event' = NoEvent
    /\ UNCHANGED <<readyState, role, userId, sent, systemState,
                   previousWindowState, telegram, db, archiveUp, pending,
                   received, lastReport, transitions, now>>
    /\ UNCHANGED <<authVars, fwVars>>

\* The relay together with the Telegram requests, for at most
\* MaxAlertConns connections and MaxAlertMsgs frames.
MaxAlertConns == 2
MaxAlertMsgs == 2

NotifierNext ==
    \/ /\ RelayNext
       /\ received' <= MaxAlertMsgs
       /\ \A c \in Conns : c > MaxAlertConns => readyState'[c] = "NONE"
    \/ \E k \in 1..MaxMsgs, outcome \in {"sent", "error"} :
          TelegramSettled(k, outcome)

NotifierSpec == Init /\ [][NotifierNext]_vars

\* The relay with a Firebase that may never answer: db.ref(...).push() and
\* .set() return promises with no timeout, and the handlers await them.
\* When Firebase answers, the event loop resumes the waiting handler.
ArchiveInit ==
    /\ readyState = [c \in Conns |-> "NONE"]
    /\ role = [c \in Conns |-> "UNKNOWN"]
    /\ archiveUp \in BOOLEAN
    /\ ServerStarted
    /\ AuthInit
    /\ FirmwareAbsent

ArchiveSpec ==
    /\ ArchiveInit
    /\ [][RelayNext]_vars
    /\ \A h \in MsgIds :
          /\ WF_vars(SensorLogDone(h))
          /\ WF_vars(CurrentStateDone(h))
          /\ WF_vars(CommandLogDone(h))

\* The relay from the state in which a first connection has registered as
\* BROWSER; frames are counted from there.
ObserverInit ==
    /\ readyState = [c \in Conns |-> IF c = 1 THEN "OPEN" ELSE "NONE"]
    /\ role = [c \in Conns |-> IF c = 1 THEN "BROWSER" ELSE "UNKNOWN"]
    /\ archiveUp = TRUE
    /\ ServerStarted
    /\ AuthInit
    /\ FirmwareAbsent

ObserverSpec == ObserverInit /\ [][RelayNext]_vars

\* What a step records when the Firebase write that handler h awaits was
\* rejected.
ArchiveError(h) == [conn |-> 0, failed |-> h]

\* Variant: logToFirebase has no try/catch; the rejection reaches the catch
\* block of the ESP32 branch, which logs it, and the handler ends there.
SensorLogFailedUncaught(h) ==
    /\ pending[h].pc = "log"
    /\ archiveUp
    /\ pending' = [pending EXCEPT ![h] = NoHandler]
    /\ event' = ArchiveError(h)
    /\ UNCHANGED <<readyState, role, userId, sent, systemState,
                   previousWindowState, telegram, telegramStatus, db,
                   archiveUp, received, lastReport, transitions, now>>
    /\ UNCHANGED <<authVars, fwVars>>

\* db.ref(logPath).set(data) of the sensor log is rejected: the catch block
\* of logToFirebase warns, the function returns, and the handler goes on to
\* saveToFirebase.
SensorLogFailed(h) ==
    /\ pending[h].pc = "log"
    /\ archiveUp
    /\ pending' = [pending EXCEPT ![h].pc = "save"]
    /\ event' = ArchiveError(h)
    /\ UNCHANGED <<readyState, role, userId, sent, systemState,
                   previousWindowState, telegram, telegramStatus, db,
                   archiveUp, received, lastReport, transitions, now>>
    /\ UNCHANGED <<authVars, fwVars>>

\* db.ref("current_state").set(data) is rejected: the catch block of
\* saveToFirebase logs the error, and the handler goes on to the broadcast
\* and the alert logic.
CurrentStateFailed(h) ==
    /\ pending[h].pc = "save"
    /\ archiveUp
    /\ Esp32Tail(systemState)
    /\ pending' = [pending EXCEPT ![h] = NoHandler]
    /\ event' = ArchiveError(h)
    /\ UNCHANGED <<readyState, role, userId, systemState, db, archiveUp,
                   received, lastReport, transitions, now>>
    /\ UNCHANGED <<authVars, fwVars>>

\* db.ref(logPath).set(data) of the command log is rejected: the catch
\* block of logToFirebase warns and the handler logs and ends.
CommandLogFailed(h) ==
    /\ pending[h].pc = "cmdlog"
    /\ archiveUp
    /\ pending' = [pending EXCEPT ![h] = NoHandler]
    /\ event' = ArchiveError(h)
    /\ UNCHANGED <<readyState, role, userId, sent, systemState,
                   previousWindowState, telegram, telegramStatus, db,
                   archiveUp, received, lastReport, transitions, now>>
    /\ UNCHANGED <<authVars, fwVars>>

\* The relay in service: connection 1 has registered as BROWSER, and
\* connection 2 either has registered as ESP32 or has not connected yet.
\* Frames are counted from there, at most MaxPairedMsgs of them, and a
\* Firebase write may succeed or be rejected.
MaxPairedMsgs == 2

PairedInit ==
    /\ \E device \in BOOLEAN :
          /\ readyState = [c \in Conns |->
                              IF c = 1 \/ (c = 2 /\ device)
                              THEN "OPEN" ELSE "NONE"]
          /\ role = [c \in Conns |->
                        IF c = 1 THEN "BROWSER"
                        ELSE IF c = 2 /\ device THEN "ESP32" ELSE "UNKNOWN"]
    /\ archiveUp = TRUE
    /\ ServerStarted
    /\ AuthInit
    /\ FirmwareAbsent

PairedNext ==
    \/ ConnectionStep
    \/ received < MaxPairedMsgs /\ MessageStep
    \/ ResumeStep
    \/ \E h \in MsgIds :
          \/ SensorLogFailed(h)
          \/ CurrentStateFailed(h)
          \/ CommandLogFailed(h)

PairedSpec == PairedInit /\ [][PairedNext]_vars

(***************************************************************************)
(* The ESP32 firmware (src/unnamed/part_001).  loop() is sequential code:  *)
(* LoopTop runs it up to wsClient.poll(), onMessageCallback runs once for  *)
(* every frame poll() delivers, LoopRest runs the rest of the iteration.   *)
(* Times are in seconds.  The buzzer and the LEDs are left out.            *)
(***************************************************************************)
ResetHold == 3      \* millis() - buttonPressStart > 3000
SendEvery == 2      \* millis() - lastSend > 2000
TempLimit == 25     \* temperature >= 25
LightLimit == 1000  \* lightValue > 1000

MaxUplink == 1      \* frames the firmware wrote that wait to be handled

\* dht.readTemperature() returns NAN when the read fails.
NaN == [t |-> "nan"]
isnan(v) == v.t = "nan"

Temperatures == {NaN, Num(TempLimit - 1), Num(TempLimit)}
LightValues == {Num(LightLimit), Num(LightLimit + 1)}

\* The text of a frame as the firmware sees it: a sequence of pieces, each
\* a run of whitespace characters or a run of other characters.
Whitespace == {" ", "\t", "\r", "\n"}

\* Variant: the text is compared as it arrived.
NoTrim(data) == data

RECURSIVE TrimLeft(_)
TrimLeft(data) ==
    IF data # <<>> /\ Head(data) \in Whitespace
    THEN TrimLeft(Tail(data)) ELSE data

RECURSIVE TrimRight(_)
TrimRight(data) ==
    IF data # <<>> /\ data[Len(data)] \in Whitespace
    THEN TrimRight(SubSeq(data, 1, Len(data) - 1)) ELSE data

\* cmd.trim()
Trim(data) == TrimRight(TrimLeft(data))

\* message.data() of a frame the relay sent.
FrameData(frame) ==
    IF frame.kind = "text"
    THEN IF Len(frame.fields) = 1 THEN frame.fields
         ELSE <<frame.fields[1], ":", frame.fields[2]>>
    ELSE <<"{", "}">>

\* The frames a server may send to the firmware.
DeviceInbox ==
    {<<"OPEN">>, <<"CLOSE">>, <<"AUTO">>, <<" ", "OPEN", "\n">>, <<"open">>}

\* Variant: the telemetry leaves the mode out.
PayloadWithoutMode(t, l, open, mode) ==
    Report(t, l, Str(IF open THEN "OPEN" ELSE "CLOSE"), Undefined, Undefined)

\* The JSON text the loop builds from the four globals.
Payload(t, l, open, mode) ==
    Report(t, l, Str(IF open THEN "OPEN" ELSE "CLOSE"), Str(mode), Undefined)

RoleFrame == Text(<<"ROLE", "ESP32">>)

\* Variant: the automatic block runs whatever the mode.
AutoAlways(mode) == TRUE

\* if (controlMode == AUTO)
AutoApplies(mode) == mode = "AUTO"

\* Variant: the window opens only above the temperature limit.
AutoControlAbove(open, t, l) ==
    IF l.n > LightLimit
    THEN FALSE
    ELSE IF t.n > TempLimit /\ ~open THEN TRUE
         ELSE IF t.n <= TempLimit /\ open THEN FALSE
         ELSE open

\* The AUTO block of loop(): the value of windowOpen after it.
AutoControl(open, t, l) ==
    IF l.n > LightLimit
    THEN IF open THEN FALSE ELSE open
    ELSE IF t.n >= TempLimit /\ ~open THEN TRUE
         ELSE IF t.n < TempLimit /\ open THEN FALSE
         ELSE open

\* Variant: a new socket is used without announcing the role.
connectSilently(connected, written) ==
    IF connected THEN <<>> ELSE written

\* connectWebSocket(): what is written on the socket and not yet taken.  A
\* new socket starts with ROLE:ESP32; what was written on a lost socket is
\* gone.
connectWebSocket(connected, written) ==
    IF connected THEN <<RoleFrame>> ELSE written

\* loop() up to wsClient.poll(): the config portal is closed once WiFi is
\* up, then checkWiFiReset() (checkWiFiConnection() only asks WiFi to
\* reconnect).
LoopTop ==
    /\ pc = "top"
    /\ LET portal == apModeActive /\ ~wifi
           holding == button = "LOW" \/ buttonHolding
           start == IF button = "LOW" /\ ~buttonHolding THEN 0 ELSE sincePress
           reset == button = "LOW" /\ start > ResetHold /\ ~portal
       IN /\ apModeActive' = (portal \/ reset)
          /\ buttonHolding' = IF reset THEN FALSE ELSE holding
          /\ sincePress' = IF reset THEN 0 ELSE start
          /\ fwEvent' = [step |-> "top", reset |-> reset]
    /\ pc' = "poll"
    /\ UNCHANGED <<controlMode, windowOpen, temperature, lightValue, sinceSend,
                   button, wifi, available, fwLink, uplink, polled, heldFor>>
    /\ UNCHANGED <<relayVars, authVars>>

\* wsClient.poll() delivers a frame: onMessageCallback(message).  Which
\* frame, and how far poll() has read, is the caller's.
onMessageCallback(data) ==
    /\ pc = "poll"
    /\ wifi
    /\ available
    /\ LET cmd == Trim(data) IN
       IF cmd = <<"AUTO">>
       THEN /\ controlMode' = "AUTO"
            /\ UNCHANGED windowOpen
            /\ fwEvent' = [step |-> "message", data |-> data, servo |-> FALSE]
       ELSE IF cmd = <<"OPEN">>
       THEN /\ controlMode' = "MANUAL"
            /\ windowOpen' = TRUE
            /\ fwEvent' = [step |-> "message", data |-> data,
                           servo |-> ~windowOpen]
       ELSE IF cmd = <<"CLOSE">>
       THEN /\ controlMode' = "MANUAL"
            /\ windowOpen' = FALSE
            /\ fwEvent' = [step |-> "message", data |-> data,
                           servo |-> windowOpen]
       ELSE /\ UNCHANGED <<controlMode, windowOpen>>
            /\ fwEvent' = [step |-> "message", data |-> data, servo |-> FALSE]
    /\ UNCHANGED <<temperature, lightValue, apModeActive, buttonHolding,
                   sincePress, sinceSend, button, wifi, available, pc, fwLink,
                   uplink, heldFor>>
    /\ UNCHANGED <<relayVars, authVars>>

\* loop() after wsClient.poll(): connectWebSocket() when WiFi is up and the
\* socket is not available (connectOk: wsClient.connect succeeded, link:
\* the relay's end of the new socket), the sensor read, the AUTO block and
\* the telemetry.
LoopRest(t, l, connectOk, link) ==
    /\ pc = "poll"
    /\ LET tries == wifi /\ ~available
           connected == tries /\ connectOk
           up == available \/ connected
           open == IF ~isnan(t) /\ AutoApplies(controlMode)
                   THEN AutoControl(windowOpen, t, l) ELSE windowOpen
           due == ~isnan(t) /\ sinceSend > SendEvery
           greeting == connectWebSocket(connected, uplink)
       IN /\ available' = up
          /\ fwLink' = IF connected THEN link ELSE fwLink
          /\ polled' = IF connected THEN 0 ELSE polled
          /\ temperature' = t
          /\ lightValue' = l
          /\ windowOpen' = open
          /\ sinceSend' = IF due THEN 0 ELSE sinceSend
          /\ uplink' = IF due /\ up
                       THEN Append(greeting, Payload(t, l, open, controlMode))
                       ELSE greeting
          /\ fwEvent' = [step |-> "rest", valid |-> ~isnan(t),
                         servo |-> open # windowOpen,
                         telemetry |-> due /\ up,
                         connect |-> IF ~tries THEN "none"
                                     ELSE IF connectOk THEN "ok" ELSE "failed"]
    /\ pc' = "top"
    /\ UNCHANGED <<controlMode, apModeActive, buttonHolding, sincePress,
                   button, wifi, heldFor>>
    /\ UNCHANGED <<relayVars, authVars>>

\* What happens around the firmware.
Upto(n, limit) == IF n < limit THEN n + 1 ELSE n

\* A second passes.
Elapse ==
    /\ sincePress' = IF buttonHolding THEN Upto(sincePress, ResetHold + 1)
                     ELSE sincePress
    /\ sinceSend' = Upto(sinceSend, SendEvery + 1)
    /\ heldFor' = IF button = "LOW" THEN Upto(heldFor, ResetHold + 1) ELSE heldFor
    /\ fwEvent' = NoFwEvent
    /\ UNCHANGED <<controlMode, windowOpen, temperature, lightValue,
                   apModeActive, buttonHolding, button, wifi, available, pc,
                   fwLink, uplink, polled>>
    /\ UNCHANGED <<relayVars, authVars>>

\* The reset button is pressed, or released.
Press ==
    /\ button = "HIGH"
    /\ button' = "LOW"
    /\ heldFor' = 0
    /\ fwEvent' = NoFwEvent
    /\ UNCHANGED <<controlMode, windowOpen, temperature, lightValue,
                   apModeActive, buttonHolding, sincePress, sinceSend, wifi,
                   available, pc, fwLink, uplink, polled>>
    /\ UNCHANGED <<relayVars, authVars>>

Release ==
    /\ button = "LOW"
    /\ button' = "HIGH"
    /\ heldFor' = 0
    /\ fwEvent' = NoFwEvent
    /\ UNCHANGED <<controlMode, windowOpen, temperature, lightValue,
                   apModeActive, buttonHolding, sincePress, sinceSend, wifi,
                   available, pc, fwLink, uplink, polled>>
    /\ UNCHANGED <<relayVars, authVars>>

\* WiFi comes up, or goes down.
WifiChange ==
    /\ wifi' = ~wifi
    /\ fwEvent' = NoFwEvent
    /\ UNCHANGED <<controlMode, windowOpen, temperature, lightValue,
                   apModeActive, buttonHolding, sincePress, sinceSend, button,
                   available, pc, fwLink, uplink, polled, heldFor>>
    /\ UNCHANGED <<relayVars, authVars>>

\* The socket is lost: what was written on it and not yet handled is gone.
LinkDown ==
    /\ available
    /\ available' = FALSE
    /\ fwLink' = 0
    /\ uplink' = <<>>
    /\ fwEvent' = NoFwEvent
    /\ UNCHANGED <<controlMode, windowOpen, temperature, lightValue,
                   apModeActive, buttonHolding, sincePress, sinceSend, button,
                   wifi, pc, polled, heldFor>>
    /\ UNCHANGED <<relayVars, authVars>>

\* The server handles the oldest frame the firmware wrote.
Delivered ==
    /\ uplink # <<>>
    /\ uplink' = Tail(uplink)
    /\ fwEvent' = NoFwEvent
    /\ UNCHANGED <<controlMode, windowOpen, temperature, lightValue,
                   apModeActive, buttonHolding, sincePress, sinceSend, button,
                   wifi, available, pc, fwLink, polled, heldFor>>
    /\ UNCHANGED <<relayVars, authVars>>

\* The firmware alone, on WiFi and connected to a server that sends it any
\* frame of DeviceInbox; nobody touches the reset button.  A write on the
\* socket waits while MaxUplink frames are not yet taken.
ControlInit ==
    /\ RelayInit
    /\ db = FALSE
    /\ AuthInit
    /\ DeviceStarted
    /\ wifi = TRUE
    /\ apModeActive = FALSE
    /\ available = TRUE
    /\ fwLink = 0
    /\ uplink = <<>>

ControlNext ==
    \/ LoopTop
    \/ \E data \in DeviceInbox : onMessageCallback(data) /\ UNCHANGED polled
    \/ /\ Len(uplink) < MaxUplink
       /\ \E t \in Temperatures, l \in LightValues : LoopRest(t, l, TRUE, 0)
    \/ Elapse
    \/ Delivered

ControlSpec == ControlInit /\ [][ControlNext]_vars

\* The firmware and its reset button, with no server in reach: the button
\* is pressed and released, time passes, WiFi comes and goes, and the
\* sensors read the same values every time.
ButtonInit ==
    /\ RelayInit
    /\ db = FALSE
    /\ AuthInit
    /\ DeviceStarted
    /\ wifi \in BOOLEAN
    /\ apModeActive = ~wifi
    /\ available = FALSE
    /\ fwLink = 0
    /\ uplink = <<>>

ButtonNext ==
    \/ LoopTop
    \/ LoopRest(Num(TempLimit - 1), Num(LightLimit), FALSE, 0)
    \/ Press
    \/ Release
    \/ Elapse
    \/ WifiChange

ButtonSpec == ButtonInit /\ [][ButtonNext]_vars

(***************************************************************************)
(* The firmware and the relay together.  The firmware's socket is the      *)
(* relay's connection fwLink: the relay handles the frames of `uplink` in  *)
(* order, the firmware polls the frames of sent[fwLink] in order.          *)
(***************************************************************************)

\* The relay handles the oldest frame the firmware wrote: ws.on("message")
\* with all its branches.
DeviceFrame ==
    \E msg \in {Head(uplink)} :
        \/ RoleRegister(fwLink, msg)
        \/ UserIdRegister(fwLink, msg)
        \/ Esp32Data(fwLink, msg)
        \/ BrowserCommand(fwLink, msg)
        \/ Ignored(fwLink, msg)

\* wsClient.poll() delivers the next frame the relay sent.
DevicePoll ==
    /\ polled < Len(sent[fwLink])
    /\ onMessageCallback(FrameData(sent[fwLink][polled + 1]))
    /\ polled' = polled + 1

\* The connections the relay has accepted and that no frame has used yet:
\* wsClient.connect() returns one of them.
Accepted ==
    {c \in Conns : readyState[c] = "OPEN" /\ role[c] = "UNKNOWN" /\ c # fwLink}

\* The firmware and the relay from boot, the relay not yet in reach: the
\* firmware connects, the relay or the network closes the socket, the
\* firmware connects again.  No browser takes part, Firebase is not
\* configured, and the sensors read the same values every time.
ReconnectInit ==
    /\ RelayInit
    /\ db = FALSE
    /\ AuthInit
    /\ DeviceStarted
    /\ wifi = TRUE
    /\ apModeActive = FALSE
    /\ available = FALSE
    /\ fwLink = 0
    /\ uplink = <<>>

ReconnectNext ==
    \/ \E c \in Conns : Connection(c)
    \/ fwLink # 0 /\ Close(fwLink)
    \/ fwLink # 0 /\ readyState[fwLink] # "OPEN" /\ LinkDown
    \/ fwLink # 0 /\ uplink # <<>> /\ DeviceFrame
    \/ LoopTop
    \/ /\ Len(uplink) < MaxUplink
       /\ \E connectOk \in BOOLEAN :
            \E link \in IF connectOk THEN Accepted ELSE {0} :
                LoopRest(Num(TempLimit), Num(LightLimit), connectOk, link)
    \/ Elapse
    \/ WifiChange

ReconnectSpec == ReconnectInit /\ [][ReconnectNext]_vars

\* The firmware connected and registered as ESP32 on connection 2, and a
\* browser registered on connection 1 that sends commands; frames are
\* counted from there.  The socket stays open, every temperature read
\* succeeds, and a frame the relay sends has arrived when the firmware
\* polls next: wsClient.poll() delivers every frame that has arrived.
\* Firebase is not configured.  The relay's event loop, the firmware's loop
\* and the clock keep running.
CommandInit ==
    /\ readyState = [c \in Conns |-> IF c <= 2 THEN "OPEN" ELSE "NONE"]
    /\ role = [c \in Conns |->
                 IF c = 1 THEN "BROWSER" ELSE IF c = 2 THEN "ESP32" ELSE "UNKNOWN"]
    /\ archiveUp = TRUE
    /\ ServerStarted
    /\ db = FALSE
    /\ AuthInit
    /\ DeviceStarted
    /\ wifi = TRUE
    /\ apModeActive = FALSE
    /\ available = TRUE
    /\ fwLink = 2
    /\ uplink = <<>>

\* The sensors read, every time, values at which the automatic block
\* closes the window.
Readings == {<<Num(TempLimit), Num(LightLimit + 1)>>}

ObserverCommands == \E msg \in CommandMsgs : BrowserCommand(1, msg)

RelayTakesFrame == uplink # <<>> /\ DeviceFrame

LoopIteration ==
    /\ Len(uplink) < MaxUplink
    /\ polled = Len(sent[fwLink])
    /\ \E r \in Readings : LoopRest(r[1], r[2], FALSE, 0)

CommandNext ==
    \/ ObserverCommands
    \/ RelayTakesFrame
    \/ DevicePoll
    \/ LoopTop
    \/ LoopIteration
    \/ Elapse

CommandSpec ==
    /\ CommandInit
    /\ [][CommandNext]_vars
    /\ WF_vars(RelayTakesFrame)
    /\ WF_vars(DevicePoll)
    /\ WF_vars(LoopTop)
    /\ WF_vars(LoopIteration)
    /\ WF_vars(Elapse)

(***************************************************************************)
(* HTTP authentication: tokens, the user_tokens ledger, the middleware.    *)
(* The clock counts units of eight hours.                                  *)
(***************************************************************************)
AccessTtl == 3      \* expiresIn: "24h"
AdminTtl == 1       \* expiresIn: "8h"

UserNames == {"alice"}

\* jwt.sign(payload, JWT_SECRET, {expiresIn: ttl}) at clock value `time`.
JwtSign(payload, time, ttl) ==
    [payload |-> payload, iat |-> time, exp |-> time + ttl, sig |-> "HS256"]

\* A token whose signature was not made with JWT_SECRET.
Forged(token) == [token EXCEPT !.sig = "forged"]

\* The Authorization header carries no token.
NoToken == [sig |-> "absent"]

\* jwt.verify(token, JWT_SECRET, callback): the error handed to the
\* callback, or "none".
JwtVerify(token, time) ==
    IF token.sig # "HS256" THEN "JsonWebTokenError"
    ELSE IF time >= token.exp THEN "TokenExpiredError"
    ELSE "none"

\* decoded.role
PayloadRole(payload) ==
    IF "role" \in DOMAIN payload THEN payload.role ELSE "undefined"

\* crypto.createHash('sha256').update(token).digest('hex'): distinct tokens
\* have distinct digests.
Sha256(token) == [sha256 |-> token]

UserPayload(id, username) == [id |-> id, username |-> username]
AdminPayload == [role |-> "admin", username |-> "admin"]

\* INSERT INTO user_tokens (user_id, jti, token_hash, type, expires_at)
LedgerRow(userIdOrNull, token, type, expiresAt) ==
    [user_id |-> userIdOrNull, token_hash |-> Sha256(token), type |-> type,
     expires_at |-> expiresAt, revoked |-> FALSE, last_used_at |-> Null]

\* The token-issuing tail shared by register, login and admin login: the
\* token is signed, its hash is inserted (a failed insert is caught and only
\* logged), and the token is returned in the response.
IssueToken(payload, userIdOrNull, type, ttl, insertOk) ==
    LET token == JwtSign(payload, now, ttl) IN
    /\ Cardinality(issued \cup {token}) <= MaxTokens
    /\ insertOk => Len(ledger) < MaxTokens
    /\ ledger' = IF insertOk
                 THEN Append(ledger, LedgerRow(userIdOrNull, token, type, now + ttl))
                 ELSE ledger
    /\ issued' = issued \cup {token}

UserIdOf(username) == CHOOSE i \in 1..Len(users) : users[i] = username
Registered(username) == \E i \in 1..Len(users) : users[i] = username

\* POST /api/register with a fresh username: 201 {user, token}.
Register(username, insertOk) ==
    /\ ~Registered(username)
    /\ users' = Append(users, username)
    /\ IssueToken(UserPayload(Len(users) + 1, username), Num(Len(users) + 1),
                  "access", AccessTtl, insertOk)
    /\ request' = NoRequest
    /\ UNCHANGED <<relayVars, fwVars, fwVars>>

\* POST /api/login with the password of a registered user: 200 {user, token}.
Login(username, insertOk) ==
    /\ Registered(username)
    /\ IssueToken(UserPayload(UserIdOf(username), username),
                  Num(UserIdOf(username)), "access", AccessTtl, insertOk)
    /\ request' = NoRequest
    /\ UNCHANGED <<relayVars, fwVars, users>>

\* POST /api/admin/login with the admin credentials: 200 {token}.
AdminLogin(insertOk) ==
    /\ IssueToken(AdminPayload, Null, "admin", AdminTtl, insertOk)
    /\ request' = NoRequest
    /\ UNCHANGED <<relayVars, fwVars, users>>

\* The revoked flag of a ledger row is set.  No route of server.js does
\* this; the flag is set in the database.
Revoke(i) ==
    /\ i \in 1..Len(ledger)
    /\ ~ledger[i].revoked
    /\ ledger' = [ledger EXCEPT ![i].revoked = TRUE]
    /\ request' = NoRequest
    /\ UNCHANGED <<relayVars, fwVars, users, issued>>

\* SELECT ... FROM user_tokens WHERE token_hash = $1 LIMIT 1: the ids of
\* the rows the query may return.
LedgerLookup(token) ==
    {i \in 1..Len(ledger) : ledger[i].token_hash = Sha256(token)}

\* The two ways a middleware call ends: a response with an error status,
\* or next() with the identity attached to the request.
Refused(mw, token, status, error) ==
    [mw |-> mw, token |-> token, admitted |-> FALSE, status |-> status,
     error |-> error]
Admitted(mw, token, identity) ==
    [mw |-> mw, token |-> token, admitted |-> TRUE, identity |-> identity]

\* The checks of authenticateToken on the row the lookup returned.
LedgerCheck(row, time) ==
    IF row.revoked THEN "Token revoked"
    ELSE IF row.expires_at < time THEN "Token expired"
    ELSE "none"

\* What a call of authenticateToken met on its way: whether it reached the
\* SELECT and the UPDATE, and whether each raised an error.
Queries(req, lookup, update) == req @@ [lookup |-> lookup, update |-> update]

\* Variant: the UPDATE of last_used_at is not wrapped in a try/catch of its
\* own, so its error reaches the outer catch.
authenticateTokenStrict(token, lookupOk, updateOk) ==
    /\ LET mw == "authenticateToken" IN
       IF token = NoToken
       THEN /\ request' = Queries(Refused(mw, token, 401, "Access token required"),
                                  "not reached", "not reached")
            /\ UNCHANGED ledger
       ELSE IF JwtVerify(token, now) # "none"
       THEN /\ request' = Queries(Refused(mw, token, 403, "Invalid token"),
                                  "not reached", "not reached")
            /\ UNCHANGED ledger
       ELSE IF ~lookupOk
       THEN /\ request' = Queries(Refused(mw, token, 500, "Internal server error"),
                                  "error", "not reached")
            /\ UNCHANGED ledger
       ELSE IF LedgerLookup(token) = {}
       THEN /\ request' = Queries(Refused(mw, token, 401, "Token not recognized"),
                                  "ok", "not reached")
            /\ UNCHANGED ledger
       ELSE \E i \in LedgerLookup(token) :
              IF LedgerCheck(ledger[i], now) # "none"
              THEN /\ request' = Queries(Refused(mw, token, 401,
                                                 LedgerCheck(ledger[i], now)),
                                         "ok", "not reached")
                   /\ UNCHANGED ledger
              ELSE IF updateOk
              THEN /\ request' = Queries(Admitted(mw, token, token.payload),
                                         "ok", "ok")
                   /\ ledger' = [ledger EXCEPT ![i].last_used_at = Num(now)]
              ELSE /\ request' = Queries(Refused(mw, token, 500,
                                                 "Internal server error"),
                                         "ok", "error")
                   /\ UNCHANGED ledger
    /\ UNCHANGED <<relayVars, fwVars, users, issued>>

\* Variant: the outer catch block calls next() with the decoded payload
\* instead of answering 500.
authenticateTokenFailOpen(token, lookupOk, updateOk) ==
    /\ LET mw == "authenticateToken" IN
       IF token = NoToken
       THEN /\ request' = Queries(Refused(mw, token, 401, "Access token required"),
                                  "not reached", "not reached")
            /\ UNCHANGED ledger
       ELSE IF JwtVerify(token, now) # "none"
       THEN /\ request' = Queries(Refused(mw, token, 403, "Invalid token"),
                                  "not reached", "not reached")
            /\ UNCHANGED ledger
       ELSE IF ~lookupOk
       THEN /\ request' = Queries(Admitted(mw, token, token.payload),
                                  "error", "not reached")
            /\ UNCHANGED ledger
       ELSE IF LedgerLookup(token) = {}
       THEN /\ request' = Queries(Refused(mw, token, 401, "Token not recognized"),
                                  "ok", "not reached")
            /\ UNCHANGED ledger
       ELSE \E i \in LedgerLookup(token) :
              IF LedgerCheck(ledger[i], now) # "none"
              THEN /\ request' = Queries(Refused(mw, token, 401,
                                                 LedgerCheck(ledger[i], now)),
                                         "ok", "not reached")
                   /\ UNCHANGED ledger
              ELSE /\ request' = Queries(Admitted(mw, token, token.payload),
                                         "ok", IF updateOk THEN "ok" ELSE "error")
                   /\ ledger' = IF updateOk
                                THEN [ledger EXCEPT ![i].last_used_at = Num(now)]
                                ELSE ledger
    /\ UNCHANGED <<relayVars, fwVars, users, issued>>

\* authenticateToken(req, res, next)
authenticateToken(token, lookupOk, updateOk) ==
    /\ LET mw == "authenticateToken" IN
       IF token = NoToken
       THEN /\ request' = Queries(Refused(mw, token, 401, "Access token required"),
                                  "not reached", "not reached")
            /\ UNCHANGED ledger
       ELSE IF JwtVerify(token, now) # "none"
       THEN /\ request' = Queries(Refused(mw, token, 403, "Invalid token"),
                                  "not reached", "not reached")
            /\ UNCHANGED ledger
       ELSE IF ~lookupOk
       THEN /\ request' = Queries(Refused(mw, token, 500, "Internal server error"),
                                  "error", "not reached")
            /\ UNCHANGED ledger
       ELSE IF LedgerLookup(token) = {}
       THEN /\ request' = Queries(Refused(mw, token, 401, "Token not recognized"),
                                  "ok", "not reached")
            /\ UNCHANGED ledger
       ELSE \E i \in LedgerLookup(token) :
              IF LedgerCheck(ledger[i], now) # "none"
              THEN /\ request' = Queries(Refused(mw, token, 401,
                                                 LedgerCheck(ledger[i], now)),
                                         "ok", "not reached")
                   /\ UNCHANGED ledger
              ELSE /\ request' = Queries(Admitted(mw, token, token.payload),
                                         "ok", IF updateOk THEN "ok" ELSE "error")
                   /\ ledger' = IF updateOk
                                THEN [ledger EXCEPT ![i].last_used_at = Num(now)]
                                ELSE ledger
    /\ UNCHANGED <<relayVars, fwVars, users, issued>>

\* The test of authenticateAdmin on the result of jwt.verify.
AdminDenied(token, time) ==
    \/ JwtVerify(token, time) # "none"
    \/ PayloadRole(token.payload) # "admin"

\* authenticateAdmin(req, res, next)
authenticateAdmin(token) ==
    /\ LET mw == "authenticateAdmin" IN
       IF token = NoToken
       THEN request' = Refused(mw, token, 401, "Admin token required")
       ELSE IF AdminDenied(token, now)
       THEN request' = Refused(mw, token, 403, "Admin access denied")
       ELSE request' = Admitted(mw, token, token.payload)
    /\ UNCHANGED <<relayVars, fwVars, users, ledger, issued>>

\* Time passes.
Tick ==
    /\ now < MaxClock
    /\ now' = now + 1
    /\ request' = NoRequest
    /\ UNCHANGED <<readyState, role, userId, sent, systemState,
                   previousWindowState, telegram, telegramStatus, db, archiveUp, pending,
                   received, event, lastReport, transitions>>
    /\ UNCHANGED <<users, ledger, issued>>
    /\ UNCHANGED fwVars

\* The tokens a caller can present: none, one it was handed, or one with a
\* signature of its own making.
Presentable == {NoToken} \cup issued \cup {Forged(t) : t \in issued}

AuthNext ==
    \/ \E u \in UserNames, insertOk \in BOOLEAN :
          \/ Register(u, insertOk)
          \/ Login(u, insertOk)
    \/ \E insertOk \in BOOLEAN : AdminLogin(insertOk)
    \/ \E i \in 1..MaxTokens : Revoke(i)
    \/ \E token \in Presentable :
          \/ \E lookupOk, updateOk \in BOOLEAN :
                authenticateToken(token, lookupOk, updateOk)
          \/ authenticateAdmin(token)
    \/ Tick

AuthSpec == Init /\ [][AuthNext]_vars

\* The same routes and middleware with fewer sessions: tokens are issued
\* while fewer than MaxSessions tokens and ledger rows exist, and the clock
\* stops at MaxSessionClock.
MaxSessions == 1
MaxSessionClock == 2

GateNext ==
    \/ /\ Cardinality(issued) < MaxSessions
       /\ Len(ledger) < MaxSessions
       /\ \/ \E u \in UserNames, insertOk \in BOOLEAN :
                \/ Register(u, insertOk)
                \/ Login(u, insertOk)
          \/ \E insertOk \in BOOLEAN : AdminLogin(insertOk)
    \/ \E i \in 1..MaxTokens : Revoke(i)
    \/ \E token \in Presentable :
          \/ \E lookupOk, updateOk \in BOOLEAN :
                authenticateToken(token, lookupOk, updateOk)
          \/ authenticateAdmin(token)
    \/ now < MaxSessionClock /\ Tick

GateSpec == Init /\ [][GateNext]_vars

(***************************************************************************)
(* Properties of the relay.                                                *)
(***************************************************************************)
\* The step handles a frame; the connection and the frame are those its
\* event records.
HandlesFrame == received' = received + 1
FrameConn == event'.conn
FrameMsg == event'.msg

NoHandlerPending == \A h \in MsgIds : pending[h] = NoHandler

WindowValues == {Str("OPEN"), Str("CLOSE")}
ModeValues == {Str("AUTO"), Str("MANUAL")}

IsNumber(v) == v.t = "number"

\* A report the specification calls well-formed.
WellFormed(data) ==
    /\ IsNumber(data.temperature)
    /\ IsNumber(data.light)
    /\ data.window \in WindowValues

\* C1: once a connection's role is ESP32 or BROWSER, no later step changes
\* it while the connection lives.
C1_RoleOneShot ==
    [][\A c \in Conns :
          (role[c] \in {"ESP32", "BROWSER"} /\ readyState'[c] # "CLOSED")
              => role'[c] = role[c]]_vars

\* C2: window and mode of systemState are those of the report stored most
\* recently (CLOSE and AUTO before the first report).
C2_StateFollowsReports ==
    /\ systemState.window = lastReport.window
    /\ lastReport.mode \in ModeValues => systemState.mode = lastReport.mode

\* The four sensor fields of snapshot snap all come from report r, or all
\* are the initial values.
FromReport(snap, r) ==
    /\ snap.temperature = r.data.temperature
    /\ snap.light = r.data.light
    /\ snap.window = r.data.window
    /\ snap.mode = r.data.mode \/ (Falsy(r.data.mode) /\ snap.mode = Str("AUTO"))

FromOneReport(snap) ==
    \/ \E r \in Reports : FromReport(snap, r)
    \/ /\ snap.temperature = InitialSystemState.temperature
       /\ snap.light = InitialSystemState.light
       /\ snap.window = InitialSystemState.window
       /\ snap.mode = InitialSystemState.mode

\* C3: every snapshot a reader can observe (a snapshot broadcast to a
\* browser, a body of GET /api/sensor-data) has its temperature, light,
\* window and mode from one single report.
C3_SnapshotAtomic ==
    /\ \A c \in Conns : \A i \in 1..Len(sent[c]) :
          sent[c][i].kind = "json" => FromOneReport(sent[c][i].data)
    /\ \A body \in SensorDataBodies : FromOneReport(body)

\* C4: once every handler has finished, sendTelegram has been called once
\* per stored report whose window differed from that of the report before.
C4_OneAlertPerTransition ==
    NoHandlerPending => Len(telegram) = transitions

\* C5: a frame from an ESP32 connection that is no JSON text changes no
\* field of systemState, sends nothing, alerts nobody and leaves the
\* connection open in its role.
C5_InvalidJsonDropped ==
    [][(/\ HandlesFrame
        /\ role[FrameConn] = "ESP32"
        /\ FrameMsg.kind = "text"
        /\ FrameMsg.fields[1] \notin {"ROLE", "USER"})
          => /\ UNCHANGED <<systemState, sent, telegram,
                            previousWindowState, pending>>
             /\ readyState'[FrameConn] = "OPEN"
             /\ role'[FrameConn] = "ESP32"]_vars

C5_Witness ==
    \E c \in Conns :
        /\ event = Frame(c, Text(<<"OPEN">>))
        /\ role[c] = "ESP32"
        /\ systemState.window = Str("OPEN")
        /\ received = 3

\* C6: a JSON frame from an ESP32 connection whose temperature or light is
\* no number, or whose window is neither OPEN nor CLOSE, changes no field
\* of systemState, sends nothing and alerts nobody.
C6_MalformedReportRejected ==
    [][(/\ HandlesFrame
        /\ role[FrameConn] = "ESP32"
        /\ FrameMsg.kind = "json"
        /\ ~WellFormed(FrameMsg.data))
          => UNCHANGED <<systemState, sent, telegram>>]_vars

\* C7: window is OPEN or CLOSE and mode is AUTO or MANUAL in every state.
C7_StateTyped ==
    /\ systemState.window \in WindowValues
    /\ systemState.mode \in ModeValues

\* C8: a command word from a BROWSER connection is sent exactly once, as
\* received, on every open ESP32 connection and on no other connection.
C8_CommandForwarded ==
    [][(/\ HandlesFrame
        /\ role[FrameConn] = "BROWSER"
        /\ FrameMsg \in {Text(<<"OPEN">>), Text(<<"CLOSE">>), Text(<<"AUTO">>)})
          => \A d \in Conns :
                sent'[d] = IF readyState[d] = "OPEN" /\ role[d] = "ESP32"
                           THEN Append(sent[d], FrameMsg)
                           ELSE sent[d]]_vars

C8_Witness ==
    \E c, d \in Conns :
        /\ event = Frame(c, Text(<<"AUTO">>))
        /\ role[c] = "BROWSER"
        /\ role[d] = "ESP32"
        /\ sent[d] = <<Text(<<"AUTO">>)>>
        /\ sent[c] = <<>>

\* C9: a frame from a BROWSER connection that is none of the three command
\* words is sent to nobody, changes no field of systemState, alerts nobody
\* and leaves the connection open.
C9_NonCommandIgnored ==
    [][(/\ HandlesFrame
        /\ role[FrameConn] = "BROWSER"
        /\ FrameMsg \notin {Text(<<"OPEN">>), Text(<<"CLOSE">>), Text(<<"AUTO">>)})
          => /\ UNCHANGED <<sent, systemState, telegram,
                            previousWindowState, pending>>
             /\ readyState'[FrameConn] = "OPEN"]_vars

C9_Witness ==
    \E c, d \in Conns :
        /\ event = Frame(c, Text(<<"open">>))
        /\ role[c] = "BROWSER"
        /\ role[d] = "ESP32"
        /\ readyState[d] = "OPEN"
        /\ sent[d] = <<>>

\* C14: no frame is handled on a connection while the handler of an
\* earlier frame of that connection is still waiting at an await.
C14_SequentialPerConnection ==
    [][HandlesFrame =>
          \A h \in MsgIds :
              pending[h] # NoHandler => pending[h].conn # FrameConn]_vars

\* C15: a stored report is eventually broadcast and checked for a window
\* transition, whether Firebase answers or not: the handler that stored it
\* runs to its end.
C15_ReportEventuallyBroadcast ==
    \A h \in MsgIds : (pending[h].pc = "log") ~> (pending[h].pc = "done")

\* The step handles, in one piece and with no handler waiting, a
\* well-formed report from an ESP32 connection.
SingleReport ==
    /\ HandlesFrame
    /\ NoHandlerPending
    /\ ~db
    /\ role[FrameConn] = "ESP32"
    /\ FrameMsg.kind = "json"
    /\ WellFormed(FrameMsg.data)

\* C16: a single well-formed report leaves its temperature, light, window
\* and mode in systemState, sends exactly one snapshot on every open
\* BROWSER connection, and alerts exactly once if its window differs from
\* the window systemState held before, and not at all otherwise.
C16_SingleReport ==
    [][SingleReport =>
          /\ systemState'.temperature = FrameMsg.data.temperature
          /\ systemState'.light = FrameMsg.data.light
          /\ systemState'.window = FrameMsg.data.window
          /\ systemState'.mode = FrameMsg.data.mode
          /\ \A d \in Conns :
                sent'[d] = IF readyState[d] = "OPEN" /\ role[d] = "BROWSER"
                           THEN Append(sent[d], Json(systemState'))
                           ELSE sent[d]
          /\ Len(telegram') =
                IF FrameMsg.data.window # systemState.window
                THEN Len(telegram) + 1 ELSE Len(telegram)]_vars

\* C17: only BROWSER connections carry a userId.
C17_IdentityOnlyOnObserver ==
    \A c \in Conns : userId[c] # Null => role[c] = "BROWSER"

\* C18: the role of every connection is UNKNOWN, ESP32 or BROWSER.
C18_RoleInDomain ==
    \A c \in Conns : role[c] \in {"UNKNOWN", "ESP32", "BROWSER"}

\* C19: a ROLE: or USER: frame, on a connection of any role, changes no
\* field of systemState, is sent on no connection and alerts nobody.
C19_DirectiveOnly ==
    [][(/\ HandlesFrame
        /\ FrameMsg.kind = "text"
        /\ Len(FrameMsg.fields) >= 2
        /\ FrameMsg.fields[1] \in {"ROLE", "USER"})
          => UNCHANGED <<systemState, sent, telegram,
                         previousWindowState>>]_vars

C19_Witness ==
    \E c, d \in Conns :
        /\ event = Frame(c, Text(<<"ROLE", "BROWSER">>))
        /\ role[c] = "BROWSER"
        /\ role[d] = "ESP32"
        /\ readyState[d] = "OPEN"
        /\ systemState.window = Str("OPEN")
        /\ sent[c] = <<>>

C23_DefaultUntilFirstReport ==
    systemState.timestamp = Null => systemState = InitialSystemState

\* The step ran broadcastToBrowser: the ESP32 branch ran to its end, in one
\* piece without Firebase or from its second await.
Broadcasts ==
    \/ /\ HandlesFrame
       /\ role[FrameConn] = "ESP32"
       /\ FrameMsg.kind = "json"
       /\ ~db
    \/ \E h \in MsgIds : pending[h].pc = "save" /\ pending'[h] = NoHandler

\* The step ran sendToESP32: a BROWSER connection sent a command word.
Forwards ==
    /\ HandlesFrame
    /\ role[FrameConn] = "BROWSER"
    /\ IsCommand(FrameMsg)

C25_CommandOrder ==
    [][/\ \A d \in Conns :
             \/ sent'[d] = sent[d]
             \/ sent'[d] = <<>>
             \/ /\ Len(sent'[d]) = Len(sent[d]) + 1
                /\ SubSeq(sent'[d], 1, Len(sent[d])) = sent[d]
       /\ Forwards =>
             \A d \in Conns :
                 (readyState[d] = "OPEN" /\ role[d] = "ESP32")
                     => /\ Len(sent'[d]) = Len(sent[d]) + 1
                        /\ sent'[d][Len(sent'[d])] = FrameMsg
       /\ ~HandlesFrame =>
             \A d \in Conns :
                 role[d] = "ESP32" => (sent'[d] = sent[d] \/ sent'[d] = <<>>)
      ]_vars

\* OPEN and then CLOSE were received while the log of OPEN was still
\* awaited; the device was sent OPEN, then CLOSE.
C25_Witness ==
    \E c, d \in Conns :
        /\ role[c] = "BROWSER"
        /\ role[d] = "ESP32"
        /\ event = Frame(c, Text(<<"CLOSE">>))
        /\ pending[1] = [pc |-> "cmdlog", conn |-> c, msg |-> Text(<<"OPEN">>)]
        /\ pending[2] = [pc |-> "cmdlog", conn |-> c, msg |-> Text(<<"CLOSE">>)]
        /\ sent[d] = <<Text(<<"OPEN">>), Text(<<"CLOSE">>)>>

\* The step stores a report: a JSON frame arrives on an ESP32 connection.
StoresReport ==
    /\ HandlesFrame
    /\ role[FrameConn] = "ESP32"
    /\ FrameMsg.kind = "json"

\* C26: the step that stores a report sets systemState.timestamp to the
\* server's time of that step, whatever timestamp the report carries, and
\* no other step changes it; so it is null until the first report is
\* stored and never after.
C26_ServerTimestamp ==
    [][/\ StoresReport => systemState'.timestamp = IsoTime(now')
       /\ ~StoresReport => systemState'.timestamp = systemState.timestamp
      ]_vars

\* A report carrying a device timestamp was stored under the server's time.
C26_Witness ==
    \E d \in Conns :
        /\ event = Frame(d, ReportOpen)
        /\ role[d] = "ESP32"
        /\ ~Falsy(ReportOpen.data.timestamp)
        /\ systemState.timestamp = IsoTime(now)
        /\ systemState.temperature = ReportOpen.data.temperature

\* C27: the snapshot a handler broadcasts after its second await carries
\* the temperature, light, window and mode of the report that handler
\* stored.
C27_BroadcastCarriesReport ==
    [][\A h \in MsgIds :
          (pending[h].pc = "save" /\ pending'[h] = NoHandler)
              => \A d \in Conns :
                    Len(sent'[d]) > Len(sent[d])
                        => FromReport(sent'[d][Len(sent'[d])].data,
                                      pending[h].msg)]_vars

\* The window values the reports carry.
ReportedWindows == {r.data.window : r \in Reports}

\* C28: every text handed to sendTelegram names a window value that some
\* report carried, and sendTelegram has been called at most once per stored
\* report whose window differed from that of the report stored before.
C28_AlertsFromReports ==
    /\ \A i \in 1..Len(telegram) : telegram[i].window \in ReportedWindows
    /\ Len(telegram) <= transitions

\* C29: a rejected Firebase write changes neither systemState nor any
\* connection, and the handler that awaited it goes on as after a write
\* that succeeded: after the sensor log to the current-state write, after
\* the current-state write to the broadcast on every open BROWSER
\* connection and the alert test, after the command log to its end, the
\* command forwarded before the await staying sent.
C29_ArchiveFailureCaught ==
    [][\A h \in MsgIds :
          event' = ArchiveError(h) =>
              /\ UNCHANGED <<systemState, readyState, role>>
              /\ pending[h].pc = "log" =>
                    /\ pending'[h] = [pending[h] EXCEPT !.pc = "save"]
                    /\ UNCHANGED <<sent, telegram, previousWindowState>>
              /\ pending[h].pc = "save" =>
                    /\ pending'[h] = NoHandler
                    /\ \A d \in Conns :
                          sent'[d] =
                              IF readyState[d] = "OPEN" /\ role[d] = "BROWSER"
                              THEN Append(sent[d], JSONStringify(systemState))
                              ELSE sent[d]
                    /\ IF systemState.window # previousWindowState
                       THEN /\ telegram' =
                                 Append(telegram, AlertMessage(systemState))
                            /\ previousWindowState' = systemState.window
                       ELSE UNCHANGED <<telegram, previousWindowState>>
              /\ pending[h].pc = "cmdlog" =>
                    /\ pending'[h] = NoHandler
                    /\ UNCHANGED <<sent, telegram, previousWindowState>>
      ]_vars

\* The current-state write of a report was rejected; the report was
\* broadcast to the observer and its window change raised the alert.
C29_Witness ==
    \E c \in Conns, h \in MsgIds :
        /\ event = ArchiveError(h)
        /\ pending[h] = NoHandler
        /\ role[c] = "BROWSER"
        /\ sent[c] = <<JSONStringify(systemState)>>
        /\ systemState.window = ReportOpen.data.window
        /\ systemState.light = ReportOpen.data.light
        /\ Len(telegram) = 1

\* C30: a command word received on a connection whose role is not BROWSER
\* is sent on no connection, changes neither systemState nor
\* previousWindowState, alerts nobody, starts no Firebase write and leaves
\* every connection as it was.
C30_OnlyObserversCommand ==
    [][(/\ HandlesFrame
        /\ role[FrameConn] # "BROWSER"
        /\ IsCommand(FrameMsg))
          => UNCHANGED <<sent, systemState, previousWindowState, telegram,
                         telegramStatus, pending, readyState, role, userId,
                         lastReport, transitions>>]_vars

\* A connection that never registered sent OPEN while a device was
\* connected: the device was sent nothing and the state is the initial one.
C30_Witness ==
    \E c, d \in Conns :
        /\ event = Frame(c, Text(<<"OPEN">>))
        /\ role[c] = "UNKNOWN"
        /\ role[d] = "ESP32"
        /\ readyState[d] = "OPEN"
        /\ sent[d] = <<>>
        /\ systemState = InitialSystemState

(***************************************************************************)
(* Properties of the authentication middleware.                           *)
(***************************************************************************)
\* The ledger holds a revoked row for the token.
RevokedInLedger(token) ==
    \E i \in LedgerLookup(token) : ledger[i].revoked

\* C10: neither authenticateToken nor authenticateAdmin calls next() for a
\* token that is revoked in the ledger.
C10_RevokedNeverAdmitted ==
    [][request'.admitted => ~RevokedInLedger(request'.token)]_vars

\* C11: register, login and admin login hand out no token whose hash is
\* not in the ledger.
C11_IssuedIsPersisted ==
    \A token \in issued : LedgerLookup(token) # {}

\* The outcome of the specification a response of authenticateToken stands
\* for.
FailureOf(error) ==
    CASE error = "Invalid token" -> "Malformed"
      [] error = "Token not recognized" -> "Unrecognized"
      [] error = "Token revoked" -> "Revoked"
      [] error = "Token expired" -> "Expired"
      [] OTHER -> "other"

\* The defects of a presented token: a signature not made with the secret,
\* no ledger row, a revoked row, the expiry reached.
Defects(token) ==
    (IF token.sig # "HS256" THEN {"Malformed"} ELSE {}) \cup
    (IF LedgerLookup(token) = {} THEN {"Unrecognized"} ELSE {}) \cup
    (IF RevokedInLedger(token) THEN {"Revoked"} ELSE {}) \cup
    (IF now >= token.exp THEN {"Expired"} ELSE {})

EarliestDefect(token) ==
    IF "Malformed" \in Defects(token) THEN "Malformed"
    ELSE IF "Unrecognized" \in Defects(token) THEN "Unrecognized"
    ELSE IF "Revoked" \in Defects(token) THEN "Revoked"
    ELSE "Expired"

\* The step is a call of authenticateToken with a token, and the ledger
\* lookup did not raise an error.
ValidatesToken ==
    /\ request'.mw = "authenticateToken"
    /\ request'.token # NoToken
    /\ request'.admitted \/ request'.status # 500

\* C12: authenticateToken refuses a token with several defects with the
\* failure of the earliest defect in the order Malformed, Unrecognized,
\* Revoked, Expired.
C12_FailurePrecedence ==
    [][(ValidatesToken /\ Cardinality(Defects(request'.token)) >= 2)
          => /\ ~request'.admitted
             /\ FailureOf(request'.error) = EarliestDefect(request'.token)]_vars

\* C13: a correctly signed token with a ledger row that is not revoked,
\* presented when the clock has reached the expiry of the row, is refused
\* with "Token expired".
C13_ExpiredAtExpiry ==
    [][(/\ ValidatesToken
        /\ request'.token.sig = "HS256"
        /\ LedgerLookup(request'.token) # {}
        /\ ~RevokedInLedger(request'.token)
        /\ \A i \in LedgerLookup(request'.token) : now >= ledger[i].expires_at)
          => /\ ~request'.admitted
             /\ FailureOf(request'.error) = "Expired"]_vars

\* C20: no two rows of user_tokens hold the same token hash.
C20_TokenHashUnique ==
    \A i, j \in 1..Len(ledger) :
        ledger[i].token_hash = ledger[j].token_hash => i = j

\* The token passes every check of authenticateToken.
PassesChecks(token) ==
    /\ JwtVerify(token, now) = "none"
    /\ LedgerLookup(token) # {}
    /\ \A i \in LedgerLookup(token) : LedgerCheck(ledger[i], now) = "none"

\* C21: a token that passes every check is admitted with its identity
\* although the UPDATE of last_used_at raised an error.
C21_UpdateFailureTolerated ==
    [][(/\ request'.mw = "authenticateToken"
        /\ request'.token # NoToken
        /\ PassesChecks(request'.token)
        /\ request'.lookup = "ok"
        /\ request'.update = "error")
          => /\ request'.admitted
             /\ request'.identity = request'.token.payload]_vars

C21_Witness ==
    /\ request.mw = "authenticateToken"
    /\ request.admitted
    /\ request.update = "error"
    /\ request.identity = UserPayload(1, "alice")

\* C31: a call of authenticateToken whose SELECT raised an error is
\* answered 500 "Internal server error"; it is not admitted, carries no
\* identity and leaves the ledger as it was.
C31_LookupFailsClosed ==
    [][(/\ request'.mw = "authenticateToken"
        /\ request'.lookup = "error")
          => /\ ~request'.admitted
             /\ request'.status = 500
             /\ request'.error = "Internal server error"
             /\ "identity" \notin DOMAIN request'
             /\ ledger' = ledger]_vars

\* The SELECT failed for an issued token that is signed, unexpired and
\* recorded in the ledger: the request was refused with 500.
C31_Witness ==
    /\ request.mw = "authenticateToken"
    /\ request.lookup = "error"
    /\ request.token \in issued
    /\ PassesChecks(request.token)
    /\ request.status = 500
    /\ ~request.admitted

(***************************************************************************)
(* Properties of the firmware.                                             *)
(***************************************************************************)

\* The frame is the word, with nothing but whitespace around it.
Says(data, word) ==
    \E i \in 1..Len(data) :
        /\ data[i] = word
        /\ \A j \in 1..Len(data) : j # i => data[j] \in {" ", "\t", "\r", "\n"}

HandlesCommand == fwEvent'.step = "message"

\* C32: when the firmware handles a frame that is, once trimmed, OPEN, it
\* is then in MANUAL mode with the window open; CLOSE, in MANUAL mode with
\* the window closed; AUTO, in AUTO mode with the window where it was; any
\* other frame changes neither mode nor window.  The servo is driven
\* exactly when the window position changes.
C32_CommandHandling ==
    [][HandlesCommand =>
         LET data == fwEvent'.data IN
         /\ Says(data, "OPEN") => controlMode' = "MANUAL" /\ windowOpen'
         /\ Says(data, "CLOSE") => controlMode' = "MANUAL" /\ ~windowOpen'
         /\ Says(data, "AUTO") =>
               controlMode' = "AUTO" /\ windowOpen' = windowOpen
         /\ ~(Says(data, "OPEN") \/ Says(data, "CLOSE") \/ Says(data, "AUTO"))
               => controlMode' = controlMode /\ windowOpen' = windowOpen
         /\ fwEvent'.servo = (windowOpen' # windowOpen)]_vars

\* An OPEN wrapped in whitespace has been handled and has moved the window.
C32_Witness ==
    /\ fwEvent.step = "message"
    /\ fwEvent.data = <<" ", "OPEN", "\n">>
    /\ fwEvent.servo
    /\ controlMode = "MANUAL"
    /\ windowOpen

\* C33: the mode becomes MANUAL when an OPEN or CLOSE is handled and stays
\* MANUAL until an AUTO is handled; while it is MANUAL no step other than
\* the handling of a command changes the window position.
C33_ManualSticky ==
    [][/\ (HandlesCommand /\ (Says(fwEvent'.data, "OPEN")
                               \/ Says(fwEvent'.data, "CLOSE")))
             => controlMode' = "MANUAL"
       /\ (controlMode = "MANUAL" /\ controlMode' # "MANUAL")
             => HandlesCommand /\ Says(fwEvent'.data, "AUTO")
       /\ (controlMode = "MANUAL" /\ ~HandlesCommand)
             => windowOpen' = windowOpen]_vars

\* In MANUAL mode the window is open and an iteration has read a light
\* level at which the automatic block closes it.
C33_Witness ==
    /\ fwEvent.step = "rest"
    /\ fwEvent.valid
    /\ controlMode = "MANUAL"
    /\ windowOpen
    /\ lightValue.n > LightLimit

\* An iteration of loop() ends.
RunsLoop == pc = "poll" /\ pc' = "top"

\* C34: after an iteration of the loop that ran in AUTO mode with a valid
\* temperature, the window is open exactly if light <= 1000 and
\* temperature >= 25; an iteration with an invalid temperature changes
\* neither window nor mode and sends no telemetry.
C34_ControlLaw ==
    [][RunsLoop =>
         /\ (fwEvent'.valid /\ controlMode = "AUTO") =>
               (windowOpen' <=> (lightValue'.n <= 1000 /\ temperature'.n >= 25))
         /\ ~fwEvent'.valid =>
               /\ windowOpen' = windowOpen
               /\ controlMode' = controlMode
               /\ ~fwEvent'.telemetry
               /\ uplink' = uplink]_vars

\* An iteration in AUTO mode has read exactly 25 degrees at a light level
\* of exactly 1000 and has opened the window.
C34_Witness ==
    /\ fwEvent.step = "rest"
    /\ fwEvent.valid
    /\ fwEvent.servo
    /\ controlMode = "AUTO"
    /\ temperature = Num(25)
    /\ lightValue = Num(1000)
    /\ windowOpen

\* An iteration whose temperature read failed although telemetry was due.
C34_InvalidWitness ==
    /\ fwEvent.step = "rest"
    /\ ~fwEvent.valid
    /\ sinceSend > SendEvery
    /\ windowOpen

\* C35: the WiFi settings are reset, and the config portal started, only
\* when the button is down and has been down without interruption for more
\* than 3 seconds.
C35_ResetNeedsLongHold ==
    [][(fwEvent'.step = "top" /\ fwEvent'.reset)
          => button = "LOW" /\ heldFor > ResetHold]_vars

\* C36: when the firmware connects, ROLE:ESP32 is the first frame on the
\* new socket; as long as the relay has not registered the socket's role
\* that frame is still ahead of everything else written on it; the relay
\* handles no report of the firmware on a connection whose role is
\* UNKNOWN; and an iteration of the loop that finds WiFi up and the socket
\* not available tries to connect.
C36_RoleBeforeReports ==
    [][/\ (RunsLoop /\ fwEvent'.connect = "ok")
             => /\ uplink' # <<>>
                /\ Head(uplink') = RoleFrame
                /\ role'[fwLink'] = "UNKNOWN"
       /\ (available' /\ fwLink' # 0 /\ role'[fwLink'] # "ESP32"
                      /\ readyState'[fwLink'] = "OPEN")
             => uplink' # <<>> /\ Head(uplink') = RoleFrame
       /\ (HandlesFrame /\ FrameConn = fwLink /\ FrameMsg.kind = "json")
             => role[fwLink] = "ESP32"
       /\ (RunsLoop /\ wifi /\ ~available) => fwEvent'.connect # "none"
       /\ (RunsLoop /\ ~(wifi /\ ~available)) => fwEvent'.connect = "none"]_vars

\* The firmware has connected a second time, and the relay has stored a
\* report it sent on the second connection.
C36_Witness ==
    /\ fwLink = 2
    /\ readyState[1] = "CLOSED"
    /\ role[2] = "ESP32"
    /\ event # NoEvent
    /\ event.conn = 2
    /\ event.msg.kind = "json"
    /\ systemState.timestamp # Null

\* The commands the relay has forwarded to the firmware, and the last one.
Forwarded == Len(sent[fwLink])
Commanded(w) == Forwarded > 0 /\ sent[fwLink][Forwarded] = Text(<<w>>)

\* The state store holds the window with mode MANUAL, the last report the
\* relay stored said so, the firmware has handled every command forwarded
\* and every report still on its way says the same.
Settled(w) ==
    /\ systemState.window = Str(w)
    /\ systemState.mode = Str("MANUAL")
    /\ systemState.timestamp # Null
    /\ lastReport = [window |-> Str(w), mode |-> Str("MANUAL")]
    /\ polled = Forwarded
    /\ \A i \in 1..Len(uplink) :
          /\ uplink[i].data.window = Str(w)
          /\ uplink[i].data.mode = Str("MANUAL")

\* C37: when a browser's OPEN (CLOSE) has been forwarded to the firmware,
\* and the relay of the model can still handle the reports on their way
\* and one more, then eventually the store holds OPEN (CLOSE) with mode
\* MANUAL as the firmware reported it, unless another command is forwarded
\* first; and once it does, it stays so until another command is forwarded.
C37_CommandTakesEffect ==
    /\ \A k \in 1..MaxMsgs :
          (/\ Forwarded = k
           /\ Commanded("OPEN") \/ Commanded("CLOSE")
           /\ received + Len(uplink) < MaxMsgs)
             ~> \/ Commanded("OPEN") /\ Settled("OPEN")
                \/ Commanded("CLOSE") /\ Settled("CLOSE")
                \/ Forwarded > k
    /\ [][\A w \in {"OPEN", "CLOSE"} :
            (Commanded(w) /\ Settled(w))
               => (Settled(w)' \/ Len(sent'[fwLink]) > Forwarded)]_vars

\* After a CLOSE and then an OPEN, the relay has stored the firmware's
\* report of an open window in MANUAL mode at a temperature and a light
\* level at which the automatic block would close it.
C37_Witness ==
    /\ Forwarded = 2
    /\ sent[fwLink][1] = Text(<<"CLOSE">>)
    /\ Commanded("OPEN")
    /\ Settled("OPEN")
    /\ systemState.light = Num(LightLimit + 1)
    /\ event.conn = fwLink
    /\ event.msg.kind = "json"

====
